---- MODULE Spec2Model ----
(***************************************************************************)
(* Model of project_to_markdown.py: one run of main() over a project       *)
(* directory.  Paths, patterns and file contents are sequences of          *)
(* one-character strings ("NUL" is the byte 0x00, "xFF" a byte that is not  *)
(* valid UTF-8), so that the string functions of the program (fnmatch,     *)
(* startswith, suffix, lower, slugify, splitlines, strip, the regular      *)
(* expressions) are computed character by character.                      *)
(***************************************************************************)
EXTENDS Integers, Sequences, FiniteSets, TLC

VARIABLES
  root_kind,        \* what args.root resolves to: "dir", "file" or "missing"
  fs,               \* the files below the root (the directory's contents)
  args,             \* the parsed command line
  pc,               \* position in main()
  todo,             \* os.walk: directories still to be listed (top-down)
  visited,          \* directories os.walk has listed
  files,            \* main: files
  idx,              \* main: position of the collect loop in files
  total_bytes,      \* main: total_bytes
  lang_counter,     \* main: lang_counter (a Counter: insertion-ordered)
  file_records,     \* main: file_records
  py_import_graph,  \* main: py_import_graph (a defaultdict: insertion-ordered)
  doc,              \* what is written to args.output: <<>>, then <<the document>>
  rc,               \* how main ended: "running", "return 0", "return 2", "exception"
  run,              \* 1 for the first run over the directory, 2 for a second one
  prev_doc          \* what the first run wrote, kept for comparison

vars == <<root_kind, fs, args, pc, todo, visited, files, idx, total_bytes,
          lang_counter, file_records, py_import_graph, doc, rc, run, prev_doc>>

\* ---------------------------------------------------------------- bounds

\* The largest number of files below the root.
MaxFiles == 2

\* The largest length of the markdown text the rendering is tried on.
MaxTextLen == 4

\* The largest number of lines of the Python text the parse is tried on.
MaxPyLines == 3

\* ---------------------------------------------------------------- text

\* The printable ASCII characters in code order, 32..126.
Printable == <<" ", "!", "\"", "#", "$", "%", "&", "'", "(", ")", "*", "+", ",", "-", ".", "/", "0", "1", "2", "3", "4", "5", "6", "7", "8", "9", ":", ";", "<", "=", ">", "?", "@", "A", "B", "C", "D", "E", "F", "G", "H", "I", "J", "K", "L", "M", "N", "O", "P", "Q", "R", "S", "T", "U", "V", "W", "X", "Y", "Z", "[", "\\", "]", "^", "_", "BACKTICK", "a", "b", "c", "d", "e", "f", "g", "h", "i", "j", "k", "l", "m", "n", "o", "p", "q", "r", "s", "t", "u", "v", "w", "x", "y", "z", "{", "|", "}", "~">>

Bytes == {Printable[i] : i \in 1..Len(Printable)} \cup {"\n", "\t", "NUL", "xFF"}

OrdOf == [c \in Bytes |->
            CASE c = "NUL" -> 0
              [] c = "\t" -> 9
              [] c = "\n" -> 10
              [] c = "xFF" -> 255
              [] OTHER -> 31 + (CHOOSE i \in 1..Len(Printable) : Printable[i] = c)]

\* ord(c)
Ord(c) == OrdOf[c]

\* str.lower() on one ASCII character
LowerChar(c) == IF Ord(c) >= 65 /\ Ord(c) <= 90 THEN Printable[Ord(c) + 32 - 31] ELSE c

\* str.lower()
Lower(s) == [i \in 1..Len(s) |-> LowerChar(s[i])]

\* The characters str.strip() and the regular expression class \s remove.
Whitespace == {" ", "\t", "\n"}

IsAlnum(c) == \/ (Ord(c) >= 48 /\ Ord(c) <= 57)
              \/ (Ord(c) >= 65 /\ Ord(c) <= 90)
              \/ (Ord(c) >= 97 /\ Ord(c) <= 122)

\* Python's < on str: code point by code point, a proper prefix first.
RECURSIVE StrLess(_, _)
StrLess(a, b) ==
  IF b = <<>> THEN FALSE
  ELSE IF a = <<>> THEN TRUE
  ELSE IF Head(a) = Head(b) THEN StrLess(Tail(a), Tail(b))
  ELSE Ord(Head(a)) < Ord(Head(b))

RECURSIVE Lstrip(_)
Lstrip(s) == IF s # <<>> /\ Head(s) \in Whitespace THEN Lstrip(Tail(s)) ELSE s

RECURSIVE Rstrip(_)
Rstrip(s) ==
  IF s # <<>> /\ s[Len(s)] \in Whitespace THEN Rstrip(SubSeq(s, 1, Len(s) - 1)) ELSE s

\* str.strip()
Strip(s) == Lstrip(Rstrip(s))

\* str.startswith
StartsWith(s, prefix) ==
  Len(s) >= Len(prefix) /\ SubSeq(s, 1, Len(prefix)) = prefix

\* The length of the longest prefix of s made of characters of C.
RECURSIVE SpanLen(_, _)
SpanLen(s, C) == IF s # <<>> /\ Head(s) \in C THEN 1 + SpanLen(Tail(s), C) ELSE 0

\* s.find(sub, start) + 1: the first position from `from` on where sub begins, or 0.
FindFrom(s, sub, from) ==
  LET hits == {i \in from..(Len(s) - Len(sub) + 1) : SubSeq(s, i, i + Len(sub) - 1) = sub}
  IN IF hits = {} THEN 0 ELSE CHOOSE i \in hits : \A j \in hits : i <= j

\* str(n) for n >= 0
RECURSIVE Decimal(_)
Decimal(n) ==
  IF n < 10 THEN <<Printable[17 + n]>>
  ELSE Append(Decimal(n \div 10), Printable[17 + (n % 10)])

\* sep.join(segs)
RECURSIVE Join(_, _)
Join(segs, sep) ==
  IF segs = <<>> THEN <<>>
  ELSE IF Len(segs) = 1 THEN segs[1]
  ELSE segs[1] \o sep \o Join(Tail(segs), sep)

\* str.splitlines(): the text cut at each "\n"; a final "\n" opens no empty line.
RECURSIVE SplitFrom(_, _)
SplitFrom(s, cur) ==
  IF s = <<>> THEN (IF cur = <<>> THEN <<>> ELSE <<cur>>)
  ELSE IF Head(s) = "\n" THEN <<cur>> \o SplitFrom(Tail(s), <<>>)
  ELSE SplitFrom(Tail(s), Append(cur, Head(s)))

splitlines(text) == SplitFrom(text, <<>>)

\* The orders in which a directory listing can return the set S.
Perms(S) ==
  {p \in [1..Cardinality(S) -> S] : \A i, j \in 1..Cardinality(S) : p[i] = p[j] => i = j}

\* sorted(seq, key=...): ascending by integer key, equal keys in their given
\* order (the sort is stable).  key is a function on the indices of seq.
StableSort(seq, key) ==
  LET n == Len(seq)
      Pos(i) == 1 + Cardinality({j \in 1..n :
                    key[j] < key[i] \/ (key[j] = key[i] /\ j < i)})
  IN [p \in 1..n |-> seq[CHOOSE i \in 1..n : Pos(i) = p]]

\* ---------------------------------------------------------------- paths

\* A relative path is the sequence of its segments (Path.parts).
\* str(path), with "/" as the separator.
PathStr(parts) == IF parts = <<>> THEN <<".">> ELSE Join(parts, <<"/">>)

Parent(parts) == SubSeq(parts, 1, Len(parts) - 1)

\* Path.name
Name(parts) == parts[Len(parts)]

\* Path.suffix: from the last dot of the name, unless the name starts or ends with it.
Suffix(parts) ==
  LET name == Name(parts)
      dots == {i \in 1..Len(name) : name[i] = "."}
  IN IF dots = {} THEN <<>>
     ELSE LET i == CHOOSE k \in dots : \A m \in dots : m <= k
          IN IF 1 < i /\ i < Len(name) THEN SubSeq(name, i, Len(name)) ELSE <<>>

DEFAULT_IGNORES == <<
  <<".", "g", "i", "t", "/", "*", "*">>, <<".", "h", "g", "/", "*", "*">>, <<".", "s", "v", "n", "/", "*", "*">>, <<"_", "_", "p", "y", "c", "a", "c", "h", "e", "_", "_", "/", "*", "*">>, <<".", "m", "y", "p", "y", "_", "c", "a", "c", "h", "e", "/", "*", "*">>,
  <<".", "p", "y", "t", "e", "s", "t", "_", "c", "a", "c", "h", "e", "/", "*", "*">>, <<"n", "o", "d", "e", "_", "m", "o", "d", "u", "l", "e", "s", "/", "*", "*">>, <<"d", "i", "s", "t", "/", "*", "*">>, <<"b", "u", "i", "l", "d", "/", "*", "*">>, <<".", "v", "e", "n", "v", "/", "*", "*">>,
  <<"v", "e", "n", "v", "/", "*", "*">>, <<".", "D", "S", "_", "S", "t", "o", "r", "e">>>>

norm_patterns(patterns) ==
  LET kept == SelectSeq(patterns, LAMBDA pat : Strip(pat) # <<>>)
  IN [i \in 1..Len(kept) |-> Strip(kept[i])]

is_hidden(parts) ==
  \E i \in 1..Len(parts) :
    /\ StartsWith(parts[i], <<".">>)
    /\ parts[i] \notin {<<".">>, <<".", ".">>}

\* fnmatch.fnmatch on a POSIX system: "*" matches any run of characters, "/"
\* included, "?" any one character, every other character itself.
RECURSIVE fnmatch(_, _)
fnmatch(s, pat) ==
  IF pat = <<>> THEN s = <<>>
  ELSE IF Head(pat) = "*"
    THEN fnmatch(s, Tail(pat)) \/ (s # <<>> /\ fnmatch(Tail(s), pat))
  ELSE /\ s # <<>>
       /\ (Head(pat) = "?" \/ Head(pat) = Head(s))
       /\ fnmatch(Tail(s), Tail(pat))

matches_ignore(rel_path, patterns) ==
  \E i \in 1..Len(patterns) : fnmatch(PathStr(rel_path), patterns[i])

\* ---------------------------------------------------------------- the directory

File(parts, kind, data) == [parts |-> parts, kind |-> kind, data |-> data]

\* The files a project directory is drawn from.  kind: "regular"; "dangling", a
\* symbolic link to nothing (os.walk lists it as a file, reading it raises);
\* "unreadable", a file that opening raises PermissionError on.  "xFF" is a
\* byte that is no UTF-8, "NUL" the byte 0.
Universe == {
  File(<<<<"a", ".", "p", "y">>>>, "regular", <<"i", "m", "p", "o", "r", "t", " ", "o", "s", "\n">>),
  File(<<<<"B", ".", "m", "d">>>>, "regular", <<"#", " ", "T", "\n", "x", "\n">>),
  File(<<<<"b", ".", "m", "d">>>>, "regular", <<"y">>),
  File(<<<<".", "h">>>>, "regular", <<"s">>),
  File(<<<<".", "g", "i", "t">>, <<"c">>>>, "regular", <<"x">>),
  File(<<<<".", "x">>, <<"c", ".", "p", "y">>>>, "regular", <<"x", "=", "1">>),
  File(<<<<"a">>, <<"b", ".", "p", "y">>>>, "regular", <<"f", "r", "o", "m", " ", ".", " ", "i", "m", "p", "o", "r", "t", " ", "y">>),
  File(<<<<"a", "-", "b", ".", "p", "y">>>>, "regular", <<"NUL", "NUL", "NUL", "NUL">>),
  File(<<<<"D", "o", "c", "k", "e", "r", "f", "i", "l", "e">>>>, "regular", <<"#", "d", "\n", "R", "U", "N">>),
  File(<<<<"l", "n", "k">>>>, "dangling", <<>>),
  File(<<<<".", "D", "S", "_", "S", "t", "o", "r", "e">>, <<"k">>>>, "regular", <<"k">>),
  File(<<<<"r", "e", "q", "u", "i", "r", "e", "m", "e", "n", "t", "s", ".", "t", "x", "t">>>>, "regular", <<"#", "r", "\n", "o", "s", "\n">>),
  File(<<<<"r", "e", "q", "u", "i", "r", "e", "m", "e", "n", "t", "s", ".", "t", "x", "t">>>>, "regular", <<"o", "s", "\n">> \o <<"xFF">>),
  File(<<<<"r", "e", "q", "u", "i", "r", "e", "m", "e", "n", "t", "s", ".", "t", "x", "t">>>>, "unreadable", <<"o", "s">>)
}

\* The directories that hold a file of F.
DirsOf(F) ==
  UNION {{SubSeq(f.parts, 1, k) : k \in 1..(Len(f.parts) - 1)} : f \in F}

\* A directory's contents: at most MaxFiles files, no two at one path.
FileSystems ==
  {F \in SUBSET Universe :
     /\ Cardinality(F) <= MaxFiles
     /\ \A f, g \in F : f.parts = g.parts => f = g}

FileAt(parts) == CHOOSE f \in fs : f.parts = parts

\* Path.is_dir()
IsDir(parts) == parts \in DirsOf(fs)

\* Path.exists(): a dangling link does not exist.
Exists(parts) == \E f \in fs : f.parts = parts /\ f.kind # "dangling"

\* ---------------------------------------------------------------- the command line

MdPolicies == {"fence", "render", "skip"}

\* The values the model draws --max-bytes-per-file from (the second its default).
MaxBytesChoices == {3, 300000}

\* The values of --only-ext (repeatable; default none).
OnlyExtChoices == {<<>>, <<<<".", "p", "y">>>>}

\* The values of --ignore (repeatable; default none).
IgnoreChoices == {<<>>, <<<<" ", "*", ".", "m", "d", " ">>>>}

ArgSets ==
  [ignore : IgnoreChoices,
   exclude_hidden : BOOLEAN,
   max_bytes_per_file : MaxBytesChoices,
   only_ext : OnlyExtChoices,
   md_policy : MdPolicies,
   mermaid_import_graph : BOOLEAN]

ignore_patterns == norm_patterns(DEFAULT_IGNORES \o args.ignore)

\* ---------------------------------------------------------------- main: start

\* main has not started.
InitRun ==
  /\ pc = "start"
  /\ todo = <<>>
  /\ visited = {}
  /\ files = <<>>
  /\ idx = 1
  /\ total_bytes = 0
  /\ lang_counter = <<>>
  /\ file_records = <<>>
  /\ py_import_graph = <<>>
  /\ doc = <<>>
  /\ rc = "running"
  /\ run = 1
  /\ prev_doc = <<>>

Init ==
  /\ root_kind \in {"dir", "file", "missing"}
  /\ fs \in (IF root_kind = "dir" THEN FileSystems ELSE {{}})
  /\ args \in ArgSets
  /\ InitRun

\* The markdown texts of at most n characters over headings, blanks and words.
MdTexts(n) == UNION {[1..k -> {"#", " ", "x", "\n"}] : k \in 0..n}

\* One markdown file, any text, rendered under --md-policy render.
InitRender ==
  /\ root_kind = "dir"
  /\ fs \in {{File(<<<<"d", ".", "m", "d">>>>, "regular", t)} : t \in MdTexts(MaxTextLen)}
  /\ args \in {a \in ArgSets : /\ a.md_policy = "render"
                                /\ a.ignore = <<>>
                                /\ a.only_ext = <<>>
                                /\ ~a.exclude_hidden
                                /\ ~a.mermaid_import_graph}
  /\ InitRun

\* The lines the Python files of SpecPy are written with: definitions with the
\* body below or on the line, a coroutine, a class, a statement, and a line
\* that is no Python; each at the margin or indented by one blank.
PyForms == {<<"d", "e", "f", " ", "f", "(", ")", ":">>, <<"d", "e", "f", " ", "g", "(", ")", ":", "p", "a", "s", "s">>, <<"a", "s", "y", "n", "c", " ", "d", "e", "f", " ", "h", "(", ")", ":", "p", "a", "s", "s">>, <<"c", "l", "a", "s", "s", " ", "C", ":">>, <<"p", "a", "s", "s">>, <<"d", "e", "f", " ", "(", ":">>}

PyLines == PyForms \cup {<<" ">> \o l : l \in PyForms}

\* The Python texts of at most n lines.
PyTexts(n) == {Join(ls, <<"\n">>) : ls \in UNION {[1..k -> PyLines] : k \in 1..n}}

\* One Python file, any text of PyTexts, under the default command line.
InitPy ==
  /\ root_kind = "dir"
  /\ fs \in {{File(<<<<"m", ".", "p", "y">>>>, "regular", t)} : t \in PyTexts(MaxPyLines)}
  /\ args \in {a \in ArgSets : /\ a.md_policy = "fence"
                                /\ a.ignore = <<>>
                                /\ a.only_ext = <<>>
                                /\ a.max_bytes_per_file = 300000
                                /\ ~a.exclude_hidden
                                /\ ~a.mermaid_import_graph}
  /\ InitRun

\* main, the check of the root: a root that is no directory ends the run with 2.
Start ==
  /\ pc = "start"
  /\ IF root_kind # "dir"
       THEN /\ pc' = "exit"
            /\ rc' = "return 2"
            /\ todo' = todo
       ELSE /\ pc' = "walk"
            /\ rc' = rc
            /\ todo' = <<<<>>>>
  /\ UNCHANGED <<root_kind, fs, args, visited, files, idx, total_bytes,
                 lang_counter, file_records, py_import_graph, doc, run, prev_doc>>

\* ---------------------------------------------------------------- main: the walk

\* keep_dir without the pruning of hidden directories.
keep_dir_ignores_only(rel_dir, dname) ==
  ~matches_ignore(Append(rel_dir, dname), ignore_patterns)

keep_dir(rel_dir, dname) ==
  IF matches_ignore(Append(rel_dir, dname), ignore_patterns) THEN FALSE
  ELSE IF args.exclude_hidden /\ StartsWith(dname, <<".">>) THEN FALSE
  ELSE TRUE

\* keep_file that drops hidden files whether or not --exclude-hidden is given.
keep_file_drops_hidden(rel) ==
  IF matches_ignore(rel, ignore_patterns) THEN FALSE
  ELSE IF is_hidden(rel) THEN FALSE
  ELSE IF IsDir(rel) THEN FALSE
  ELSE IF /\ args.only_ext # <<>>
          /\ \A i \in 1..Len(args.only_ext) : args.only_ext[i] # Suffix(rel)
          /\ Name(rel) # <<"D", "o", "c", "k", "e", "r", "f", "i", "l", "e">> THEN FALSE
  ELSE TRUE

\* keep_file without the exception for Dockerfile.
keep_file_no_dockerfile(rel) ==
  IF matches_ignore(rel, ignore_patterns) THEN FALSE
  ELSE IF args.exclude_hidden /\ is_hidden(rel) THEN FALSE
  ELSE IF IsDir(rel) THEN FALSE
  ELSE IF /\ args.only_ext # <<>>
          /\ \A i \in 1..Len(args.only_ext) : args.only_ext[i] # Suffix(rel) THEN FALSE
  ELSE TRUE

\* The body of the loop over filenames: whether p is appended to files.
keep_file(rel) ==
  IF matches_ignore(rel, ignore_patterns) THEN FALSE
  ELSE IF args.exclude_hidden /\ is_hidden(rel) THEN FALSE
  ELSE IF IsDir(rel) THEN FALSE
  ELSE IF /\ args.only_ext # <<>>
          /\ \A i \in 1..Len(args.only_ext) : args.only_ext[i] # Suffix(rel)
          /\ Name(rel) # <<"D", "o", "c", "k", "e", "r", "f", "i", "l", "e">> THEN FALSE
  ELSE TRUE

\* One iteration of `for dirpath, dirnames, filenames in os.walk(root)`: the
\* directory at the head of the walk is listed, in whatever order the file
\* system returns its entries; the kept sub-directories are walked next.
WalkDir ==
  /\ pc = "walk"
  /\ todo # <<>>
  /\ LET rel_dir == Head(todo)
         dirset == {d \in DirsOf(fs) : Parent(d) = rel_dir}
         fileset == {f.parts : f \in {g \in fs : Parent(g.parts) = rel_dir}}
     IN \E dirnames \in Perms(dirset), filenames \in Perms(fileset) :
          LET kept == SelectSeq(dirnames, LAMBDA d : keep_dir(rel_dir, Name(d)))
          IN /\ todo' = kept \o Tail(todo)
             /\ files' = files \o SelectSeq(filenames, keep_file)
             /\ visited' = visited \cup {rel_dir}
             /\ pc' = IF todo' # <<>> THEN "walk"
                      ELSE IF files' = <<>> THEN "sort" ELSE "collect"
  /\ UNCHANGED <<root_kind, fs, args, idx, total_bytes, lang_counter,
                 file_records, py_import_graph, doc, rc, run, prev_doc>>

\* ---------------------------------------------------------------- main: per-file info

\* File extension -> code fence language
EXT_TO_LANG ==
  (<<".", "p", "y">> :> "python") @@ (<<".", "i", "p", "y", "n", "b">> :> "json") @@ (<<".", "j", "s">> :> "javascript") @@
  (<<".", "j", "s", "x">> :> "jsx") @@ (<<".", "t", "s">> :> "typescript") @@ (<<".", "t", "s", "x">> :> "tsx") @@
  (<<".", "j", "s", "o", "n">> :> "json") @@ (<<".", "y", "m", "l">> :> "yaml") @@ (<<".", "y", "a", "m", "l">> :> "yaml") @@
  (<<".", "t", "o", "m", "l">> :> "toml") @@ (<<".", "i", "n", "i">> :> "ini") @@ (<<".", "c", "f", "g">> :> "ini") @@
  (<<".", "s", "h">> :> "bash") @@ (<<".", "z", "s", "h">> :> "bash") @@ (<<".", "b", "a", "s", "h">> :> "bash") @@
  (<<".", "p", "s", "1">> :> "powershell") @@ (<<".", "r", "b">> :> "ruby") @@ (<<".", "g", "o">> :> "go") @@
  (<<".", "r", "s">> :> "rust") @@ (<<".", "j", "a", "v", "a">> :> "java") @@ (<<".", "k", "t">> :> "kotlin") @@
  (<<".", "s", "w", "i", "f", "t">> :> "swift") @@ (<<".", "p", "h", "p">> :> "php") @@ (<<".", "c">> :> "c") @@
  (<<".", "h">> :> "c") @@ (<<".", "h", "p", "p">> :> "cpp") @@ (<<".", "h", "h">> :> "cpp") @@
  (<<".", "c", "p", "p">> :> "cpp") @@ (<<".", "c", "c">> :> "cpp") @@ (<<".", "m">> :> "objectivec") @@
  (<<".", "m", "m">> :> "objectivec") @@ (<<".", "c", "s">> :> "csharp") @@ (<<".", "s", "q", "l">> :> "sql") @@
  (<<".", "m", "d">> :> "markdown") @@ (<<".", "h", "t", "m", "l">> :> "html") @@ (<<".", "h", "t", "m">> :> "html") @@
  (<<".", "c", "s", "s">> :> "css") @@ (<<".", "s", "c", "s", "s">> :> "scss") @@ (<<".", "l", "e", "s", "s">> :> "less") @@
  (<<".", "v", "u", "e">> :> "vue") @@ (<<".", "s", "v", "e", "l", "t", "e">> :> "svelte") @@ (<<".", "x", "m", "l">> :> "xml") @@
  (<<".", "g", "r", "a", "d", "l", "e">> :> "groovy") @@ (<<".", "g", "r", "o", "o", "v", "y">> :> "groovy") @@ (<<".", "d", "o", "c", "k", "e", "r", "f", "i", "l", "e">> :> "dockerfile") @@
  (<<"D", "o", "c", "k", "e", "r", "f", "i", "l", "e">> :> "dockerfile") @@ (<<".", "d", "o", "c", "k", "e", "r", "i", "g", "n", "o", "r", "e">> :> "") @@ (<<".", "e", "n", "v">> :> "") @@
  (<<".", "t", "x", "t">> :> "") @@ (<<>> :> "")

\* Comment prefixes to estimate SLOC and brief descriptions
COMMENT_PREFIXES ==
  ("python" :> <<"#">>) @@ ("bash" :> <<"#">>) @@ ("ruby" :> <<"#">>) @@
  ("ini" :> <<";">>) @@ ("json" :> <<>>) @@ ("yaml" :> <<"#">>) @@
  ("toml" :> <<"#">>) @@ ("javascript" :> <<"/", "/">>) @@ ("typescript" :> <<"/", "/">>) @@
  ("tsx" :> <<"/", "/">>) @@ ("jsx" :> <<"/", "/">>) @@ ("java" :> <<"/", "/">>) @@
  ("c" :> <<"/", "/">>) @@ ("cpp" :> <<"/", "/">>) @@ ("csharp" :> <<"/", "/">>) @@
  ("go" :> <<"/", "/">>) @@ ("rust" :> <<"/", "/">>) @@ ("php" :> <<"/", "/">>) @@
  ("swift" :> <<"/", "/">>) @@ ("kotlin" :> <<"/", "/">>) @@ ("objectivec" :> <<"/", "/">>) @@
  ("sql" :> <<"-", "-">>) @@ ("html" :> <<>>) @@ ("css" :> <<>>) @@
  ("markdown" :> <<>>) @@ ("xml" :> <<>>) @@ ("dockerfile" :> <<"#">>) @@
  ("groovy" :> <<"/", "/">>)

detect_language(parts) ==
  IF Name(parts) = <<"D", "o", "c", "k", "e", "r", "f", "i", "l", "e">> THEN "dockerfile"
  ELSE IF Suffix(parts) \in DOMAIN EXT_TO_LANG THEN EXT_TO_LANG[Suffix(parts)]
  ELSE ""

\* The length of the sample is_probably_binary is given.
SampleLen == 4096

\* data[:n]
Prefix(data, n) == SubSeq(data, 1, IF n < Len(data) THEN n ELSE Len(data))

\* s[n:]
Drop(s, n) == SubSeq(s, n + 1, Len(s))

is_probably_binary(sample) ==
  IF \E i \in 1..Len(sample) : sample[i] = "NUL" THEN TRUE
  ELSE \E i \in 1..Len(sample) : sample[i] = "xFF"

\* bytes.decode("utf-8", errors="replace")
Decode(data) == [i \in 1..Len(data) |-> IF data[i] = "xFF" THEN "U+FFFD" ELSE data[i]]

\* read_text_safely that cuts a file of exactly max_bytes bytes as well.
read_text_safely_at_cap(f, max_bytes) ==
  IF f.kind # "regular"
    THEN [raised |-> TRUE, text |-> <<>>, truncated |-> FALSE, nbytes |-> 0]
  ELSE LET nbytes == Len(f.data)
           truncated == nbytes >= max_bytes
           data == Prefix(f.data, max_bytes)
       IN IF is_probably_binary(Prefix(data, SampleLen))
            THEN [raised |-> FALSE, text |-> <<>>, truncated |-> FALSE, nbytes |-> nbytes]
            ELSE [raised |-> FALSE, text |-> Decode(data), truncated |-> truncated,
                  nbytes |-> nbytes]

\* read_text_safely(p, max_bytes): (text, truncated, nbytes), or the exception
\* p.read_bytes() raises on a file that cannot be opened.
read_text_safely(f, max_bytes) ==
  IF f.kind # "regular"
    THEN [raised |-> TRUE, text |-> <<>>, truncated |-> FALSE, nbytes |-> 0]
  ELSE LET nbytes == Len(f.data)
           truncated == nbytes > max_bytes
           data == IF nbytes > max_bytes THEN Prefix(f.data, max_bytes) ELSE f.data
       IN IF is_probably_binary(Prefix(data, SampleLen))
            THEN [raised |-> FALSE, text |-> <<>>, truncated |-> FALSE, nbytes |-> nbytes]
            ELSE [raised |-> FALSE, text |-> Decode(data), truncated |-> truncated,
                  nbytes |-> nbytes]

\* hashlib.sha1 of the text, kept symbolic.
sha1_of_text(s) == <<"sha1", s>>

sloc_of_text(text, lang) ==
  LET com == IF lang \in DOMAIN COMMENT_PREFIXES THEN COMMENT_PREFIXES[lang] ELSE <<>>
      ls == splitlines(text)
      Counted(line) == /\ Strip(line) # <<>>
                       /\ ~(com # <<>> /\ StartsWith(Strip(line), com))
  IN Cardinality({i \in 1..Len(ls) : Counted(ls[i])})


\* The regular expression class \w
WordChars == {c \in Bytes : IsAlnum(c) \/ c = "_"}

\* Whether the match of a word at positions i..j of s has a \b at each end.
WordBounded(s, i, j) ==
  /\ (i = 1 \/ s[i - 1] \notin WordChars)
  /\ (j = Len(s) \/ s[j + 1] \notin WordChars)

\* len(re.findall(r"\bTODO\b|FIXME|XXX", text, flags=re.IGNORECASE)), counted
\* from position i on: matches are taken left to right and do not overlap.
RECURSIVE TodosFrom(_, _)
TodosFrom(s, i) ==
  IF i > Len(s) THEN 0
  ELSE IF StartsWith(Drop(s, i - 1), <<"t", "o", "d", "o">>) /\ WordBounded(s, i, i + 3)
    THEN 1 + TodosFrom(s, i + 4)
  ELSE IF StartsWith(Drop(s, i - 1), <<"f", "i", "x", "m", "e">>) THEN 1 + TodosFrom(s, i + 5)
  ELSE IF StartsWith(Drop(s, i - 1), <<"x", "x", "x">>) THEN 1 + TodosFrom(s, i + 3)
  ELSE TodosFrom(s, i + 1)

count_todos(text) == TodosFrom(Lower(text), 1)

\* The default of max_lines in extract_brief_description.
MaxBriefLines == 5

\* The text between a leading triple quote and the next one: {doc}, or {} when
\* the text does not start with a closed triple-quoted string.
Docstring(text) ==
  LET t == Lstrip(text)
      quote == SubSeq(t, 1, 3)
      end == FindFrom(t, quote, 4)
  IN IF (StartsWith(t, <<"\"", "\"", "\"">>) \/ StartsWith(t, <<"'", "'", "'">>)) /\ end # 0
       THEN {SubSeq(t, 4, end - 1)}
       ELSE {}

\* The loop of extract_brief_description over the leading comment lines.
RECURSIVE CommentRun(_, _, _)
CommentRun(ls, prefix, acc) ==
  IF ls = <<>> THEN acc
  ELSE IF StartsWith(Strip(Head(ls)), prefix)
    THEN LET more == Append(acc, Lstrip(Drop(Strip(Head(ls)), Len(prefix))))
         IN IF Len(more) >= MaxBriefLines THEN more
            ELSE CommentRun(Tail(ls), prefix, more)
  ELSE IF Strip(Head(ls)) = <<>>
    THEN CommentRun(Tail(ls), prefix, IF acc # <<>> THEN Append(acc, <<>>) ELSE acc)
  ELSE acc

extract_brief_description(text, lang) ==
  LET prefix == IF lang \in DOMAIN COMMENT_PREFIXES THEN COMMENT_PREFIXES[lang] ELSE <<>>
      comments == Strip(Join(CommentRun(splitlines(text), prefix, <<>>), <<"\n">>))
      docstring == CHOOSE d \in Docstring(text) : TRUE
  IN IF lang = "python" /\ Docstring(text) # {}
       THEN Join(Prefix(splitlines(Strip(docstring)), MaxBriefLines), <<"\n">>)
     ELSE IF prefix # <<>> /\ comments # <<>> THEN comments
     ELSE Strip(Join(Prefix(splitlines(text), 2), <<"\n">>))

\* The default of max_len in auto_summary.
MaxSummaryLen == 200

\* re.match(r"\s*#+\s+(.*)", line): the groups matched.
HeadingMatch(line) ==
  LET r1 == Drop(line, SpanLen(line, Whitespace))
      r2 == Drop(r1, SpanLen(r1, {"#"}))
  IN IF SpanLen(r1, {"#"}) >= 1 /\ SpanLen(r2, Whitespace) >= 1
       THEN {Drop(r2, SpanLen(r2, Whitespace))}
       ELSE {}

\* Whether r"^\s*<kw>\s+\w+\(" matches at position i of the text; the position
\* after the match, or 0.
DefMatchEnd(s, i, kw) ==
  LET r0 == Drop(s, i - 1)
      r1 == Drop(r0, SpanLen(r0, Whitespace))
      r2 == Drop(r1, Len(kw))
      r3 == Drop(r2, SpanLen(r2, Whitespace))
      r4 == Drop(r3, SpanLen(r3, WordChars))
  IN IF /\ (i = 1 \/ s[i - 1] = "\n")
        /\ StartsWith(r1, kw)
        /\ SpanLen(r2, Whitespace) >= 1
        /\ SpanLen(r3, WordChars) >= 1
        /\ StartsWith(r4, <<"(">>)
       THEN Len(s) - Len(r4) + 2
       ELSE 0

\* len(re.findall(r"^\s*<kw>\s+\w+\(", text, flags=re.MULTILINE)) from position i on.
RECURSIVE CountDefs(_, _, _)
CountDefs(s, i, kw) ==
  IF i > Len(s) THEN 0
  ELSE IF DefMatchEnd(s, i, kw) # 0 THEN 1 + CountDefs(s, DefMatchEnd(s, i, kw), kw)
  ELSE CountDefs(s, i + 1, kw)

auto_summary(text, lang) ==
  LET ls == splitlines(text)
      headings == {i \in 1..Len(ls) : HeadingMatch(ls[i]) # {}}
      first_heading == CHOOSE i \in headings : \A j \in headings : i <= j
      doc_lines == splitlines(Strip(CHOOSE d \in Docstring(text) : TRUE))
      filled == {i \in 1..Len(ls) : Strip(ls[i]) # <<>>}
      first_filled == CHOOSE i \in filled : \A j \in filled : i <= j
  IN IF text = <<>> THEN <<>>
     ELSE IF lang = "markdown" /\ headings # {}
       THEN Prefix(Strip(CHOOSE g \in HeadingMatch(ls[first_heading]) : TRUE), MaxSummaryLen)
     ELSE IF lang = "python" /\ Docstring(text) # {} /\ doc_lines # <<>>
       THEN Prefix(doc_lines[1], MaxSummaryLen)
     ELSE IF lang = "python"
       THEN Prefix(<<"P", "y", "t", "h", "o", "n", " ", "m", "o", "d", "u", "l", "e", " ", "w", "i", "t", "h", " ">> \o Decimal(CountDefs(text, 1, <<"d", "e", "f">>))
                   \o <<" ", "f", "u", "n", "c", "t", "i", "o", "n", "s", " ", "a", "n", "d", " ">> \o Decimal(CountDefs(text, 1, <<"c", "l", "a", "s", "s">>))
                   \o <<" ", "c", "l", "a", "s", "s", "e", "s", ".">>, MaxSummaryLen)
     ELSE IF filled # {} THEN Prefix(Strip(ls[first_filled]), MaxSummaryLen)
     ELSE <<>>

\* [a-zA-Z0-9_\.]
ModChars == {c \in Bytes : IsAlnum(c) \/ c \in {"_", "."}}

\* str.split(".")[0]
FirstDotted(s) == SubSeq(s, 1, SpanLen(s, Bytes \ {"."}))

\* re.match(r"from\s+([a-zA-Z0-9_\.]+)\s+import\s+", line): the groups matched.
FromMatch(line) ==
  IF ~StartsWith(line, <<"f", "r", "o", "m">>) THEN {}
  ELSE LET r1 == Drop(line, 4)
           r2 == Drop(r1, SpanLen(r1, Whitespace))
           r3 == Drop(r2, SpanLen(r2, ModChars))
           r4 == Drop(r3, SpanLen(r3, Whitespace))
           r5 == Drop(r4, 6)
       IN IF /\ SpanLen(r1, Whitespace) >= 1
             /\ SpanLen(r2, ModChars) >= 1
             /\ SpanLen(r3, Whitespace) >= 1
             /\ StartsWith(r4, <<"i", "m", "p", "o", "r", "t">>)
             /\ SpanLen(r5, Whitespace) >= 1
            THEN {SubSeq(r2, 1, SpanLen(r2, ModChars))}
            ELSE {}

\* re.match(r"import\s+([a-zA-Z0-9_\.]+)", line): the groups matched.
ImportMatch(line) ==
  IF ~StartsWith(line, <<"i", "m", "p", "o", "r", "t">>) THEN {}
  ELSE LET r1 == Drop(line, 6)
           r2 == Drop(r1, SpanLen(r1, Whitespace))
       IN IF SpanLen(r1, Whitespace) >= 1 /\ SpanLen(r2, ModChars) >= 1
            THEN {SubSeq(r2, 1, SpanLen(r2, ModChars))}
            ELSE {}

\* The module names one line adds to mods.
ImportsOfLine(raw) ==
  LET line == Strip(raw)
  IN IF line = <<>> \/ StartsWith(line, <<"#">>) THEN {}
     ELSE IF FromMatch(line) # {} THEN {FirstDotted(g) : g \in FromMatch(line)}
     ELSE {FirstDotted(Strip(SubSeq(g, 1, SpanLen(g, Bytes \ {","})))) : g \in ImportMatch(line)}

python_imports(text) ==
  LET ls == splitlines(text)
  IN UNION {ImportsOfLine(ls[i]) : i \in 1..Len(ls)}

\* ---------------------------------------------------------------- main: the Python metrics

\* keyword.kwlist
Keywords == {<<"F", "a", "l", "s", "e">>, <<"N", "o", "n", "e">>, <<"T", "r", "u", "e">>, <<"a", "n", "d">>, <<"a", "s">>, <<"a", "s", "s", "e", "r", "t">>, <<"a", "s", "y", "n", "c">>, <<"a", "w", "a", "i", "t">>,
             <<"b", "r", "e", "a", "k">>, <<"c", "l", "a", "s", "s">>, <<"c", "o", "n", "t", "i", "n", "u", "e">>, <<"d", "e", "f">>, <<"d", "e", "l">>, <<"e", "l", "i", "f">>, <<"e", "l", "s", "e">>, <<"e", "x", "c", "e", "p", "t">>,
             <<"f", "i", "n", "a", "l", "l", "y">>, <<"f", "o", "r">>, <<"f", "r", "o", "m">>, <<"g", "l", "o", "b", "a", "l">>, <<"i", "f">>, <<"i", "m", "p", "o", "r", "t">>, <<"i", "n">>, <<"i", "s">>,
             <<"l", "a", "m", "b", "d", "a">>, <<"n", "o", "n", "l", "o", "c", "a", "l">>, <<"n", "o", "t">>, <<"o", "r">>, <<"p", "a", "s", "s">>, <<"r", "a", "i", "s", "e">>, <<"r", "e", "t", "u", "r", "n">>, <<"t", "r", "y">>,
             <<"w", "h", "i", "l", "e">>, <<"w", "i", "t", "h">>, <<"y", "i", "e", "l", "d">>}

Digits == {c \in Bytes : Ord(c) >= 48 /\ Ord(c) <= 57}

\* An identifier that is no keyword.
IsName(s) ==
  /\ s # <<>>
  /\ \A i \in 1..Len(s) : s[i] \in WordChars
  /\ s[1] \notin Digits
  /\ s \notin Keywords

\* A name, a constant or a decimal number.
IsAtom(s) ==
  \/ IsName(s)
  \/ s \in {<<"T", "r", "u", "e">>, <<"F", "a", "l", "s", "e">>, <<"N", "o", "n", "e">>}
  \/ /\ s # <<>>
     /\ \A i \in 1..Len(s) : s[i] \in Digits
     /\ (Len(s) = 1 \/ s[1] # "0")

\* name ("." name)*
RECURSIVE IsDotted(_)
IsDotted(s) ==
  LET k == SpanLen(s, WordChars)
  IN /\ IsName(SubSeq(s, 1, k))
     /\ \/ k = Len(s)
        \/ (s[k + 1] = "." /\ IsDotted(Drop(s, k + 1)))

\* The simple statements of the files of the model: pass, an atom, name = atom,
\* import a.b, from .a import b.
IsSimple(s) ==
  LET eq == FindFrom(s, <<"=">>, 1)
      after == Lstrip(Drop(s, 5))
      imp == FindFrom(after, <<" ", "i", "m", "p", "o", "r", "t", " ">>, 1)
      dots == SpanLen(after, {"."})
      mod == Strip(SubSeq(after, dots + 1, imp - 1))
  IN \/ s = <<"p", "a", "s", "s">>
     \/ IsAtom(s)
     \/ /\ eq > 0
        /\ IsName(Rstrip(SubSeq(s, 1, eq - 1)))
        /\ IsAtom(Lstrip(Drop(s, eq)))
     \/ /\ StartsWith(s, <<"i", "m", "p", "o", "r", "t", " ">>)
        /\ IsDotted(Lstrip(Drop(s, 7)))
     \/ /\ StartsWith(s, <<"f", "r", "o", "m", " ">>)
        /\ imp > 0
        /\ (IsDotted(mod) \/ (mod = <<>> /\ dots > 0))
        /\ IsName(Lstrip(Drop(after, imp + 7)))

\* What follows the header of a compound statement: nothing, and the body is
\* the indented block below; or a simple statement, the body, on the same line.
Suite(kind, rest) ==
  IF Strip(rest) = <<>> THEN [kind |-> kind, block |-> TRUE]
  ELSE IF IsSimple(Strip(rest)) THEN [kind |-> kind, block |-> FALSE]
  ELSE [kind |-> "Invalid", block |-> FALSE]

\* name "(" [name] ")" ":" suite, after def or async def.
DefHeader(kind, s) ==
  LET k == SpanLen(s, WordChars)
      close == FindFrom(s, <<")">>, k + 2)
      params == Strip(SubSeq(s, k + 2, close - 1))
  IN IF /\ IsName(SubSeq(s, 1, k))
        /\ Len(s) > k /\ s[k + 1] = "("
        /\ close > 0
        /\ (params = <<>> \/ IsName(params))
        /\ Len(s) > close /\ s[close + 1] = ":"
       THEN Suite(kind, Drop(s, close + 1))
       ELSE [kind |-> "Invalid", block |-> FALSE]

\* name ":" suite, after class.
ClassHeader(s) ==
  LET k == SpanLen(s, WordChars)
  IN IF IsName(SubSeq(s, 1, k)) /\ Len(s) > k /\ s[k + 1] = ":"
       THEN Suite("ClassDef", Drop(s, k + 1))
       ELSE [kind |-> "Invalid", block |-> FALSE]

\* The statement one logical line holds: the class of its node, and whether an
\* indented block has to follow.  A line outside the statements above is taken
\* for a syntax error.
Statement(s) ==
  IF StartsWith(s, <<"a", "s", "y", "n", "c", " ", "d", "e", "f", " ">>) THEN DefHeader("AsyncFunctionDef", Lstrip(Drop(s, 10)))
  ELSE IF StartsWith(s, <<"d", "e", "f", " ">>) THEN DefHeader("FunctionDef", Lstrip(Drop(s, 4)))
  ELSE IF StartsWith(s, <<"c", "l", "a", "s", "s", " ">>) THEN ClassHeader(Lstrip(Drop(s, 6)))
  ELSE IF IsSimple(s) THEN [kind |-> "Simple", block |-> FALSE]
  ELSE [kind |-> "Invalid", block |-> FALSE]

\* The logical lines of the text: blank lines and comment lines are no tokens.
LogicalLines(text) ==
  LET kept == SelectSeq(splitlines(text),
                        LAMBDA l : Strip(l) # <<>> /\ Strip(l)[1] # "#")
  IN [i \in 1..Len(kept) |->
        [indent |-> SpanLen(kept[i], {" "}), stmt |-> Statement(Strip(kept[i]))]]

\* The indentation of the logical lines against the stack of open blocks:
\* after a header the line is indented further and opens a block; any other
\* line closes the blocks indented further than it and is indented as the
\* block it falls back to.  The result is whether the lines parse and the
\* statement nodes of the tree, each with the number of blocks around it.
RECURSIVE ParseLines(_, _, _)
ParseLines(ls, stack, expect) ==
  IF ls = <<>> THEN [ok |-> ~expect, nodes |-> <<>>]
  ELSE LET l == Head(ls)
           open == SelectSeq(stack, LAMBDA n : n <= l.indent)
           now == IF expect THEN Append(stack, l.indent) ELSE open
           rest == ParseLines(Tail(ls), now, l.stmt.block)
       IN IF \/ l.stmt.kind = "Invalid"
             \/ (expect /\ l.indent <= stack[Len(stack)])
             \/ (~expect /\ open[Len(open)] # l.indent)
             \/ ~rest.ok
            THEN [ok |-> FALSE, nodes |-> <<>>]
            ELSE [ok |-> TRUE,
                  nodes |-> <<[kind |-> l.stmt.kind, depth |-> Len(now) - 1]>> \o rest.nodes]

\* ast.parse(text): the statement nodes of the tree, or SyntaxError.
ast_parse(text) == ParseLines(LogicalLines(text), <<0>>, FALSE)

\* sum(isinstance(n, cls) for n in ast.walk(tree)), top level only.
CountNodesTopLevel(nodes, cls) ==
  Len(SelectSeq(nodes, LAMBDA n : n.kind = cls /\ n.depth = 0))

\* sum(isinstance(n, cls) for n in ast.walk(tree))
CountNodes(nodes, cls) == Len(SelectSeq(nodes, LAMBDA n : n.kind = cls))

\* py_funcs and py_classes: the counts over the tree, 0 when ast.parse raises.
py_funcs(text) ==
  IF ast_parse(text).ok THEN CountNodes(ast_parse(text).nodes, "FunctionDef") ELSE 0

py_classes(text) ==
  IF ast_parse(text).ok THEN CountNodes(ast_parse(text).nodes, "ClassDef") ELSE 0

\* The branching keywords simple_cyclomatic_complexity_py counts.
BranchKeywords == {<<"i", "f">>, <<"e", "l", "i", "f">>, <<"f", "o", "r">>, <<"w", "h", "i", "l", "e">>, <<"a", "n", "d">>, <<"o", "r">>, <<"t", "r", "y">>, <<"e", "x", "c", "e", "p", "t">>,
                   <<"w", "i", "t", "h">>, <<"c", "a", "s", "e">>}

\* The words of the text: its longest runs of word characters.
RECURSIVE WordsOf(_)
WordsOf(s) ==
  IF s = <<>> THEN <<>>
  ELSE IF Head(s) \notin WordChars THEN WordsOf(Tail(s))
  ELSE <<SubSeq(s, 1, SpanLen(s, WordChars))>> \o WordsOf(Drop(s, SpanLen(s, WordChars)))

\* 1 + len(re.findall(r"\b(if|...)\b", text))
simple_cyclomatic_complexity_py(text) ==
  1 + Len(SelectSeq(WordsOf(text), LAMBDA w : w \in BranchKeywords))

\* lang_counter[key] += 1 on a Counter: a new key is added last.
CounterAdd(counter, key) ==
  IF \E i \in 1..Len(counter) : counter[i].key = key
    THEN [i \in 1..Len(counter) |->
            IF counter[i].key = key
              THEN [key |-> key, count |-> counter[i].count + 1]
              ELSE counter[i]]
    ELSE Append(counter, [key |-> key, count |-> 1])

\* GraphAdd that enters every Python file with text, imports or not.
GraphAddAlways(graph, p, lang, text) ==
  IF lang = "python" /\ text # <<>>
    THEN Append(graph, [file |-> PathStr(p), imports |-> python_imports(text)])
    ELSE graph

\* The end of the loop body: a Python file with text and at least one import gets
\* its entry in py_import_graph.
GraphAdd(graph, p, lang, text) ==
  IF lang = "python" /\ text # <<>>
    THEN IF python_imports(text) # {}
           THEN Append(graph, [file |-> PathStr(p), imports |-> python_imports(text)])
           ELSE graph
    ELSE graph

\* The record main builds for the file p with what read_text_safely returned.
\* The modification time is not part of the model.
RecordOf(p, r) ==
  LET lang == detect_language(p)
  IN [path |-> p,
      lang |-> lang,
      text |-> r.text,
      truncated |-> r.truncated,
      nbytes |-> r.nbytes,
      loc |-> IF r.text # <<>> THEN Len(splitlines(r.text)) ELSE 0,
      sloc |-> IF r.text # <<>> THEN sloc_of_text(r.text, lang) ELSE 0,
      todos |-> IF r.text # <<>> THEN count_todos(r.text) ELSE 0,
      sha1 |-> IF r.text # <<>> THEN sha1_of_text(r.text) ELSE <<>>,
      py_funcs |-> IF lang = "python" /\ r.text # <<>> THEN py_funcs(r.text) ELSE 0,
      py_classes |-> IF lang = "python" /\ r.text # <<>> THEN py_classes(r.text) ELSE 0,
      py_complex |-> IF lang = "python" /\ r.text # <<>>
                       THEN simple_cyclomatic_complexity_py(r.text) ELSE 0]

\* One iteration of `for p in files`.  An exception of read_text_safely is not
\* caught: it ends main.
Collect ==
  /\ pc = "collect"
  /\ idx <= Len(files)
  /\ LET p == files[idx]
         r == read_text_safely(FileAt(p), args.max_bytes_per_file)
         lang == detect_language(p)
     IN IF r.raised
          THEN /\ pc' = "raised"
               /\ rc' = "exception"
               /\ UNCHANGED <<idx, total_bytes, lang_counter, file_records,
                              py_import_graph>>
          ELSE /\ total_bytes' = total_bytes + r.nbytes
               /\ lang_counter' = CounterAdd(lang_counter, IF lang # "" THEN lang ELSE "plain")
               /\ file_records' = Append(file_records, RecordOf(p, r))
               /\ py_import_graph' = GraphAdd(py_import_graph, p, lang, r.text)
               /\ idx' = idx + 1
               /\ pc' = IF idx' > Len(files) THEN "sort" ELSE "collect"
               /\ rc' = rc
  /\ UNCHANGED <<root_kind, fs, args, todo, visited, files, doc, run, prev_doc>>

\* file_records.sort(key=lambda r: str(r["path"]).lower())
SortKey(r) == Lower(PathStr(r.path))

\* The records left in the order of the traversal.
UnsortedRecords(records) == records

SortedRecords(records) ==
  StableSort(records,
    [i \in 1..Len(records) |->
       Cardinality({j \in 1..Len(records) : StrLess(SortKey(records[j]), SortKey(records[i]))})])

SortRecords ==
  /\ pc = "sort"
  /\ file_records' = SortedRecords(file_records)
  /\ pc' = "render"
  /\ UNCHANGED <<root_kind, fs, args, todo, visited, files, idx, total_bytes,
                 lang_counter, py_import_graph, doc, rc, run, prev_doc>>

\* ---------------------------------------------------------------- main: the document

\* Python's < on two paths: their parts compared as lists of strings.
RECURSIVE PartsLess(_, _)
PartsLess(a, b) ==
  IF b = <<>> THEN FALSE
  ELSE IF a = <<>> THEN TRUE
  ELSE IF Head(a) = Head(b) THEN PartsLess(Tail(a), Tail(b))
  ELSE StrLess(Head(a), Head(b))

\* sorted(paths) for a set of paths.
SortPaths(S) ==
  [p \in 1..Cardinality(S) |->
     CHOOSE x \in S : Cardinality({y \in S : PartsLess(y, x)}) = p - 1]

\* sorted(mods) for a set of module names.
SortStrings(S) ==
  [p \in 1..Cardinality(S) |->
     CHOOSE x \in S : Cardinality({y \in S : StrLess(y, x)}) = p - 1]

\* [A-Za-z0-9/_\-.]
SlugChars == {c \in Bytes : IsAlnum(c) \/ c \in {"/", "_", "-", "."}}

\* re.sub(r"[^A-Za-z0-9/_\-.]+", "-", s)
RECURSIVE SubRuns(_)
SubRuns(s) ==
  IF s = <<>> THEN <<>>
  ELSE IF Head(s) \in SlugChars THEN <<Head(s)>> \o SubRuns(Tail(s))
  ELSE <<"-">> \o SubRuns(Drop(s, SpanLen(s, Bytes \ SlugChars)))

\* s.strip("-")
StripDashes(s) ==
  LET lead == SpanLen(s, {"-"})
      rest == Drop(s, lead)
      keep == {i \in 1..Len(rest) : rest[i] # "-"}
  IN IF keep = {} THEN <<>>
     ELSE SubSeq(rest, 1, CHOOSE k \in keep : \A m \in keep : m <= k)

slugify(path_like) ==
  LET s == StripDashes(SubRuns(path_like))
      t == [i \in 1..Len(s) |-> IF s[i] = "/" THEN "-" ELSE s[i]]
  IN IF t # <<>> THEN t ELSE <<"f", "i", "l", "e">>

\* The offset main passes to demote_markdown_headings.
DemoteLevels == 3

Hashes(n) == [i \in 1..n |-> "#"]

\* DemoteLine that adds one "#" too few.
DemoteLineShort(line, levels) ==
  LET lead == SpanLen(line, Whitespace)
      r1 == Drop(line, lead)
      hashes == SpanLen(r1, {"#"})
      r2 == Drop(r1, hashes)
      rest == Drop(r2, SpanLen(r2, Whitespace))
  IN IF hashes >= 1
       THEN SubSeq(line, 1, lead) \o Hashes(hashes + levels - 1) \o <<" ">> \o rest
       ELSE line

\* One line of demote_markdown_headings: re.match(r"(\s*)(#+)\s*(.*)$", line).
DemoteLine(line, levels) ==
  LET lead == SpanLen(line, Whitespace)
      r1 == Drop(line, lead)
      hashes == SpanLen(r1, {"#"})
      r2 == Drop(r1, hashes)
      rest == Drop(r2, SpanLen(r2, Whitespace))
  IN IF hashes >= 1
       THEN SubSeq(line, 1, lead) \o Hashes(hashes + levels) \o <<" ">> \o rest
       ELSE line

demote_markdown_headings(text, levels) ==
  IF levels <= 0 THEN text
  ELSE LET ls == splitlines(text)
       IN Join([i \in 1..Len(ls) |-> DemoteLine(ls[i], levels)], <<"\n">>)

\* The lines requirements.txt contributes: stripped, neither empty nor a comment.
RequirementLines(data) ==
  LET ls == splitlines(SelectSeq(data, LAMBDA c : c # "xFF"))
      kept == SelectSeq(ls, LAMBDA l : Strip(l) # <<>> /\ ~StartsWith(Strip(l), <<"#">>))
  IN [i \in 1..Len(kept) |-> Strip(kept[i])]

\* detect_dependencies(root).  A manifest that cannot be read raises inside the
\* try block and leaves no entry.  The directories of the model hold neither a
\* pyproject.toml nor a package.json, so only requirements.txt contributes.
detect_dependencies ==
  LET req == <<<<"r", "e", "q", "u", "i", "r", "e", "m", "e", "n", "t", "s", ".", "t", "x", "t">>>>
  IN IF ~Exists(req) THEN <<>>
     ELSE IF FileAt(req).kind # "regular" THEN <<>>
     ELSE IF RequirementLines(FileAt(req).data) = <<>> THEN <<>>
     ELSE <<[key |-> "python_requirements", items |-> RequirementLines(FileAt(req).data)]>>

\* The default of --top-n-largest.
TopNLargest == 12

\* sorted(seq, key=..., reverse=True)[:n]: descending, equal keys in their given order.
\* key is a function on the indices of records.
TopBy(records, key, n) ==
  Prefix(StableSort(records, [i \in 1..Len(records) |-> 0 - key[i]]), n)

NbytesOf(records) == [i \in 1..Len(records) |-> records[i].nbytes]
LocOf(records) == [i \in 1..Len(records) |-> records[i].loc]
CountOf(counter) == [i \in 1..Len(counter) |-> counter[i].count]

\* Counter.most_common()
most_common(counter) == TopBy(counter, CountOf(counter), Len(counter))

\* build_tree(root, files): the directories of the included files, sorted, then the
\* files, sorted; each with its depth and whether it is a directory.
build_tree(records) ==
  LET rel_files == {records[i].path : i \in 1..Len(records)}
      dirs == UNION {{SubSeq(f, 1, k) : k \in 1..(Len(f) - 1)} : f \in rel_files}
      entries == SortPaths(dirs) \o SortPaths(rel_files)
  IN [i \in 1..Len(entries) |->
        [depth |-> Len(entries[i]) - 1,
         is_dir |-> IsDir(entries[i]),
         name |-> Name(entries[i])]]

\* The table of contents: one line per record.
TocOf(records) ==
  [i \in 1..Len(records) |->
     [idx |-> i,
      path |-> PathStr(records[i].path),
      anchor |-> slugify(PathStr(records[i].path))]]

\* The lines of the import graph: per file in the order of py_import_graph, per
\* module in sorted order.
RECURSIVE GraphEdges(_)
GraphEdges(graph) ==
  IF graph = <<>> THEN <<>>
  ELSE LET e == Head(graph)
           mods == SortStrings(e.imports)
       IN [i \in 1..Len(mods) |->
             [file_node |-> slugify(e.file),
              file_path |-> e.file,
              mod_node |-> slugify(<<"m", "o", "d", "-">> \o mods[i]),
              mod |-> mods[i]]]
          \o GraphEdges(Tail(graph))

\* The content block of one record: the markdown policies, then the fenced code
\* of every other file.  body holds the text lines appended, marker whether
\* the truncation marker line is appended.
ContentBlock(r) ==
  IF r.lang = "markdown" /\ args.md_policy = "skip"
    THEN [kind |-> "skipped", fence |-> "", body |-> <<>>, marker |-> FALSE]
  ELSE IF r.lang = "markdown" /\ args.md_policy = "fence"
    THEN [kind |-> "verbatim", fence |-> "markdown",
          body |-> <<Rstrip(r.text)>>, marker |-> r.truncated]
  ELSE IF r.lang = "markdown" /\ args.md_policy = "render"
    THEN [kind |-> "rendered", fence |-> "",
          body |-> <<Rstrip(demote_markdown_headings(r.text, DemoteLevels))>>,
          marker |-> r.truncated]
  ELSE [kind |-> "content", fence |-> r.lang,
        body |-> IF r.text # <<>> THEN <<Rstrip(r.text)>> ELSE <<>>,
        marker |-> r.truncated]

\* The per-file section of one record: the anchor, the header, the metrics line,
\* the brief and the summary when there is text and they are not empty, and the
\* content block.
EntryOf(i, r) ==
  [anchor |-> slugify(PathStr(r.path)),
   idx |-> i,
   rel |-> PathStr(r.path),
   nbytes |-> r.nbytes,
   loc |-> r.loc,
   sloc |-> r.sloc,
   todos |-> r.todos,
   sha1 |-> r.sha1,
   py |-> IF r.lang = "python"
            THEN <<[funcs |-> r.py_funcs, classes |-> r.py_classes,
                    complexity |-> r.py_complex]>>
            ELSE <<>>,
   brief |-> IF r.text # <<>> /\ extract_brief_description(r.text, r.lang) # <<>>
               THEN <<extract_brief_description(r.text, r.lang)>>
               ELSE <<>>,
   summary |-> IF r.text # <<>> /\ auto_summary(r.text, r.lang) # <<>>
                 THEN <<auto_summary(r.text, r.lang)>>
                 ELSE <<>>,
   block |-> ContentBlock(r)]

\* sum(r["loc"] for r in file_records)
RECURSIVE TotalLoc(_)
TotalLoc(records) ==
  IF records = <<>> THEN 0 ELSE Head(records).loc + TotalLoc(Tail(records))

\* sum(r["sloc"] for r in file_records)
RECURSIVE TotalSloc(_)
TotalSloc(records) ==
  IF records = <<>> THEN 0 ELSE Head(records).sloc + TotalSloc(Tail(records))

\* sum(r["todos"] for r in file_records)
RECURSIVE TotalTodos(_)
TotalTodos(records) ==
  IF records = <<>> THEN 0 ELSE Head(records).todos + TotalTodos(Tail(records))

\* Everything main appends to lines after the GENERATED line, with the defaults
\* of --title, --top-n-largest, --no-metrics and --no-summaries.
DocumentOf(records) ==
  [n_files |-> Len(records),
   total_bytes |-> total_bytes,
   total_loc |-> TotalLoc(records),
   total_sloc |-> TotalSloc(records),
   total_todos |-> TotalTodos(records),
   language_mix |-> most_common(lang_counter),
   dependencies |-> detect_dependencies,
   largest |-> [i \in 1..Len(TopBy(records, NbytesOf(records), TopNLargest)) |->
                  PathStr(TopBy(records, NbytesOf(records), TopNLargest)[i].path)],
   longest |-> [i \in 1..Len(TopBy(records, LocOf(records), TopNLargest)) |->
                  PathStr(TopBy(records, LocOf(records), TopNLargest)[i].path)],
   tree |-> build_tree(records),
   toc |-> TocOf(records),
   graph |-> IF args.mermaid_import_graph /\ py_import_graph # <<>>
               THEN [present |-> TRUE, edges |-> GraphEdges(py_import_graph)]
               ELSE [present |-> FALSE, edges |-> <<>>],
   entries |-> [i \in 1..Len(records) |-> EntryOf(i, records[i])]]

\* The overview, the composition of the document and its writing; main returns 0.
Render ==
  /\ pc = "render"
  /\ doc' = <<DocumentOf(file_records)>>
  /\ rc' = "return 0"
  /\ pc' = "done"
  /\ UNCHANGED <<root_kind, fs, args, todo, visited, files, idx, total_bytes,
                 lang_counter, file_records, py_import_graph, run, prev_doc>>

\* A second run of main over the same directory with the same command line.
Rerun ==
  /\ pc = "done"
  /\ run = 1
  /\ run' = 2
  /\ prev_doc' = doc
  /\ pc' = "start"
  /\ todo' = <<>>
  /\ visited' = {}
  /\ files' = <<>>
  /\ idx' = 1
  /\ total_bytes' = 0
  /\ lang_counter' = <<>>
  /\ file_records' = <<>>
  /\ py_import_graph' = <<>>
  /\ doc' = <<>>
  /\ rc' = "running"
  /\ UNCHANGED <<root_kind, fs, args>>

\* The script's last lines, `if __name__ == "__main__": main()`: the value main
\* returns is dropped, so the interpreter exits with 0 when main returns,
\* whatever it returns, and with 1 when main raises.
ExitStatus == IF rc = "exception" THEN 1 ELSE 0

Next == Start \/ WalkDir \/ Collect \/ SortRecords \/ Render

\* One run of main over any directory and command line.
Spec == Init /\ [][Next]_vars

\* One run of main over one markdown file under --md-policy render.
SpecRender == InitRender /\ [][Next]_vars

\* One run of main over one Python file under the default command line.
SpecPy == InitPy /\ [][Next]_vars

\* Two runs, one after the other, over the same directory.
NextTwoRuns == Next \/ Rerun

SpecTwoRuns == Init /\ [][NextTwoRuns]_vars

\* ---------------------------------------------------------------- properties

\* Whether the path has a segment that starts with ".".
HasDotSegment(parts) == \E i \in 1..Len(parts) : parts[i] # <<>> /\ parts[i][1] = "."

HasRecord(parts) == \E i \in 1..Len(file_records) : file_records[i].path = parts

HasEntry(parts) ==
  doc # <<>> /\ \E i \in 1..Len(doc[1].entries) : doc[1].entries[i].rel = PathStr(parts)

InFiles(parts) == \E i \in 1..Len(files) : files[i] = parts

\* Whether the sequence of path strings ascends by lower-cased path.
Ascending(paths) ==
  \A i \in 1..(Len(paths) - 1) : ~StrLess(Lower(paths[i + 1]), Lower(paths[i]))

\* C1: in the written document the table of contents and the per-file entries
\* are both in ascending order of the lower-cased relative path, hold one line
\* per included file, and the i-th line of the one names the path of the i-th
\* entry of the other, whatever the order of the traversal.
C1_EntriesSorted ==
  pc = "done" =>
    /\ Len(doc[1].entries) = Len(files)
    /\ Len(doc[1].toc) = Len(files)
    /\ Ascending([i \in 1..Len(files) |-> doc[1].entries[i].rel])
    /\ Ascending([i \in 1..Len(files) |-> doc[1].toc[i].path])
    /\ \A i \in 1..Len(files) :
         /\ doc[1].toc[i].path = doc[1].entries[i].rel
         /\ doc[1].toc[i].idx = doc[1].entries[i].idx

\* A document of at least two files that the traversal met out of order.
C1_Witness ==
  /\ pc = "done"
  /\ \E i \in 1..(Len(files) - 1) :
       StrLess(Lower(PathStr(files[i + 1])), Lower(PathStr(files[i])))

\* C2: with --exclude-hidden no file kept, no record and no entry has a path with
\* a segment that starts with ".", and no directory with such a segment is ever
\* listed by the walk.
C2_HiddenExcluded ==
  args.exclude_hidden =>
    /\ \A d \in visited : ~HasDotSegment(d)
    /\ \A i \in 1..Len(files) : ~HasDotSegment(files[i])
    /\ \A i \in 1..Len(file_records) : ~HasDotSegment(file_records[i].path)
    /\ \A f \in fs : HasDotSegment(f.parts) => ~HasEntry(f.parts)

\* A finished run with --exclude-hidden over a directory that holds a non-hidden
\* file in a hidden directory that no ignore pattern matches.
C2_Witness ==
  /\ args.exclude_hidden
  /\ pc = "done"
  /\ \E f \in fs :
       /\ Len(f.parts) = 2
       /\ HasDotSegment(Parent(f.parts))
       /\ ~HasDotSegment(<<Name(f.parts)>>)
       /\ ~matches_ignore(f.parts, ignore_patterns)
       /\ ~matches_ignore(Parent(f.parts), ignore_patterns)

\* Whether a default ignore pattern matches the path or a directory above it.
DefaultIgnored(parts) ==
  \E k \in 1..Len(parts) : matches_ignore(SubSeq(parts, 1, k), DEFAULT_IGNORES)

\* The command line of C3: no --exclude-hidden, no --ignore, no --only-ext.
HiddenDefaults == ~args.exclude_hidden /\ args.ignore = <<>> /\ args.only_ext = <<>>

\* C3 as stated: by default every file with a segment that starts with "." gets
\* a record and an entry.
C3_AllHiddenIncluded ==
  (pc = "done" /\ HiddenDefaults) =>
    \A f \in fs : HasDotSegment(f.parts) => HasRecord(f.parts) /\ HasEntry(f.parts)

\* C3, amended: by default every file with a segment that starts with "." gets
\* a record and an entry in the written document, unless a built-in ignore
\* pattern matches its path or a directory above it.
C3_HiddenIncluded ==
  (pc = "done" /\ HiddenDefaults) =>
    \A f \in fs :
      (HasDotSegment(f.parts) /\ ~DefaultIgnored(f.parts)) =>
        HasRecord(f.parts) /\ HasEntry(f.parts)

\* A default run that wrote the entry of a file in a hidden directory.
C3_Witness ==
  /\ pc = "done"
  /\ HiddenDefaults
  /\ \E f \in fs : /\ Len(f.parts) = 2
                   /\ HasDotSegment(Parent(f.parts))
                   /\ HasEntry(f.parts)

\* Whether the first max-bytes-per-file bytes of the file make it binary.
SampledBinary(f) ==
  \E i \in 1..Len(f.data) :
    /\ i <= args.max_bytes_per_file
    /\ i <= SampleLen
    /\ f.data[i] \in {"NUL", "xFF"}

OverCap(f) == Len(f.data) > args.max_bytes_per_file

\* C4 as stated: a record is marked truncated, and its content block holds the
\* truncation marker, exactly when the file is larger than the byte cap.
C4_TruncatedIffOverCap ==
  pc = "done" =>
    \A i \in 1..Len(file_records) :
      LET f == FileAt(file_records[i].path)
      IN /\ file_records[i].truncated <=> OverCap(f)
         /\ doc[1].entries[i].block.marker <=> OverCap(f)

\* C4, amended: a record is marked truncated exactly when the file is larger
\* than the byte cap and is not taken for binary; its entry holds the truncation
\* marker exactly when it is marked truncated and is not a markdown file under
\* the skip policy.  A file at or below the cap is never marked and has no marker.
C4_TruncatedIffOverCapText ==
  pc = "done" =>
    \A i \in 1..Len(file_records) :
      LET f == FileAt(file_records[i].path)
          r == file_records[i]
          e == doc[1].entries[i]
      IN /\ e.rel = PathStr(r.path)
         /\ r.truncated <=> (OverCap(f) /\ ~SampledBinary(f))
         /\ e.block.marker <=>
              (r.truncated /\ ~(Suffix(r.path) = <<".", "m", "d">> /\ args.md_policy = "skip"))
         /\ ~OverCap(f) => (~r.truncated /\ ~e.block.marker)

\* A document with the entry of a file cut at the cap, marked and with its
\* marker, and the entry of a file of exactly the cap's size.
C4_Witness ==
  /\ pc = "done"
  /\ \E i \in 1..Len(file_records) :
       file_records[i].truncated /\ doc[1].entries[i].block.marker
  /\ \E i \in 1..Len(file_records) :
       Len(FileAt(file_records[i].path).data) = args.max_bytes_per_file

\* Whether the walk listed the file and the ignore and hidden filters let it pass.
PassedFilters(f) ==
  /\ Parent(f.parts) \in visited
  /\ ~matches_ignore(f.parts, ignore_patterns)
  /\ ~(args.exclude_hidden /\ HasDotSegment(f.parts))

\* Whether the whitelist admits the file.
Whitelisted(f) ==
  \/ args.only_ext = <<>>
  \/ \E i \in 1..Len(args.only_ext) : args.only_ext[i] = Suffix(f.parts)
  \/ Name(f.parts) = <<"D", "o", "c", "k", "e", "r", "f", "i", "l", "e">>

\* C5: once the walk is over, a file that passed the ignore and hidden filters
\* is kept, and has its record when the run is done, exactly when the whitelist
\* is empty, holds its extension, or the file is named Dockerfile.
C5_Whitelist ==
  /\ pc \notin {"start", "walk"} =>
       \A f \in fs : PassedFilters(f) => (InFiles(f.parts) <=> Whitelisted(f))
  /\ pc = "done" =>
       \A f \in fs : PassedFilters(f) => (HasRecord(f.parts) <=> Whitelisted(f))

\* A finished run with a whitelist that kept a Dockerfile and dropped another file.
C5_Witness ==
  /\ pc = "done"
  /\ args.only_ext # <<>>
  /\ \E f \in fs : Name(f.parts) = <<"D", "o", "c", "k", "e", "r", "f", "i", "l", "e">> /\ HasRecord(f.parts)
  /\ \E f \in fs : PassedFilters(f) /\ ~HasRecord(f.parts)

\* A heading line: its first character after leading white space is "#".
IsHeadingLine(line) ==
  LET k == SpanLen(line, Whitespace) IN k < Len(line) /\ line[k + 1] = "#"

HashCount(line) == Cardinality({i \in 1..Len(line) : line[i] = "#"})

\* The lines of the text read from the one markdown file, and the lines emitted.
SourceLines == splitlines(file_records[1].text)
EmittedLines == splitlines(doc[1].entries[1].block.body[1])

RenderedOne ==
  /\ pc = "done"
  /\ Len(file_records) = 1
  /\ doc[1].entries[1].block.kind = "rendered"

\* C6 as stated: every heading line is emitted with 3 more "#", every other line
\* unchanged, in the order of the source.
C6_LinesPreserved ==
  RenderedOne =>
    /\ Len(EmittedLines) = Len(SourceLines)
    /\ \A i \in 1..Len(SourceLines) :
         IF IsHeadingLine(SourceLines[i])
           THEN HashCount(EmittedLines[i]) = HashCount(SourceLines[i]) + 3
           ELSE EmittedLines[i] = SourceLines[i]

\* C6, amended: every heading line is emitted with 3 more "#" and every other
\* line unchanged, in the order of the source, but for the white space at the end
\* of the text: blank lines at the end are not emitted and the last line emitted
\* has lost its trailing white space.
C6_LinesPreservedButTail ==
  RenderedOne =>
    /\ Len(EmittedLines) <= Len(SourceLines)
    /\ \A i \in 1..Len(SourceLines) :
         IF IsHeadingLine(SourceLines[i])
           THEN /\ i <= Len(EmittedLines)
                /\ HashCount(EmittedLines[i]) = HashCount(SourceLines[i]) + 3
                /\ i < Len(EmittedLines) =>
                     Len(EmittedLines[i]) <= Len(SourceLines[i]) + 4
           ELSE IF i < Len(EmittedLines) THEN EmittedLines[i] = SourceLines[i]
           ELSE IF i = Len(EmittedLines) THEN EmittedLines[i] = Rstrip(SourceLines[i])
           ELSE Rstrip(SourceLines[i]) = <<>>

\* A rendered text with a heading line followed by a line that is no heading.
C6_Witness ==
  /\ RenderedOne
  /\ Len(EmittedLines) >= 2
  /\ IsHeadingLine(SourceLines[1])
  /\ ~IsHeadingLine(SourceLines[2])
  /\ EmittedLines[2] = SourceLines[2]

\* Whether the record is of a Python file with text that yields a module name.
YieldsModule(r) == Suffix(r.path) = <<".", "p", "y">> /\ r.text # <<>> /\ python_imports(r.text) # {}

\* C7: the document holds the import graph exactly when --mermaid-import-graph
\* is given and some record of a Python file with text yields a module name; the
\* graph has an edge from a file exactly when that file yields one.
C7_GraphIffImports ==
  pc = "done" =>
    /\ doc[1].graph.present <=>
         (args.mermaid_import_graph /\
          \E i \in 1..Len(file_records) : YieldsModule(file_records[i]))
    /\ doc[1].graph.present =>
         \A i \in 1..Len(file_records) :
           YieldsModule(file_records[i]) <=>
             \E k \in 1..Len(doc[1].graph.edges) :
               doc[1].graph.edges[k].file_path = PathStr(file_records[i].path)
    /\ ~doc[1].graph.present => doc[1].graph.edges = <<>>

\* A document with the graph, over a Python file that yields a module name and a
\* Python file with text that yields none.
C7_Witness ==
  /\ pc = "done"
  /\ doc[1].graph.present
  /\ \E i \in 1..Len(file_records) :
       /\ Suffix(file_records[i].path) = <<".", "p", "y">>
       /\ file_records[i].text # <<>>
       /\ ~YieldsModule(file_records[i])

\* C8: the second run over the unchanged directory writes the document the
\* first run wrote, whatever the two orders of traversal.
C8_SameDocument == (run = 2 /\ pc = "done") => doc = prev_doc

\* C9: in the written document two entries with different paths have different
\* anchors.
C9_AnchorsDistinct ==
  pc = "done" =>
    \A i, j \in 1..Len(doc[1].entries) :
      doc[1].entries[i].rel # doc[1].entries[j].rel =>
        doc[1].entries[i].anchor # doc[1].entries[j].anchor

\* C10: once the root is accepted, the run ends with 0 and a written document
\* that holds the entry of every file kept that can be read, whatever files
\* cannot be read.
C10_FailuresIsolated ==
  (root_kind = "dir" /\ pc \notin {"start", "walk", "collect", "sort", "render"}) =>
    /\ rc = "return 0"
    /\ doc # <<>>
    /\ \A i \in 1..Len(files) :
         FileAt(files[i]).kind = "regular" => HasEntry(files[i])

\* C11: a root that is missing or no directory ends the run before anything is
\* walked or read, without a document, and both the caller of main and the
\* caller of the script get a status other than 0; every run over a root that
\* is a directory ends with status 0 and the document written.
C11_RootChecked ==
  /\ (root_kind # "dir" /\ pc # "start") =>
       /\ pc = "exit"
       /\ visited = {} /\ files = <<>> /\ file_records = <<>>
       /\ doc = <<>>
       /\ rc = "return 2"
       /\ ExitStatus # 0
  /\ (root_kind = "dir" /\ pc \in {"exit", "raised", "done"}) =>
       /\ rc = "return 0"
       /\ ExitStatus = 0
       /\ doc # <<>>

\* The sizes of the files of the records, summed.
RECURSIVE SizeSum(_)
SizeSum(records) ==
  IF records = <<>> THEN 0
  ELSE Len(FileAt(Head(records).path).data) + SizeSum(Tail(records))

\* C12: a file whose sample holds a NUL byte or is no UTF-8 has a record with
\* empty text, zero line counts and an empty hash; nothing read from it is in
\* the document, in its entry or in any other section; its entry reports its
\* size in bytes, and the total size counts it.
C12_BinaryNotEmbedded ==
  pc = "done" =>
    /\ doc[1].total_bytes = SizeSum(file_records)
    /\ \A i \in 1..Len(file_records) :
         LET r == file_records[i]
             f == FileAt(r.path)
             e == doc[1].entries[i]
         IN SampledBinary(f) =>
              /\ r.text = <<>> /\ r.loc = 0 /\ r.sloc = 0 /\ r.sha1 = <<>>
              /\ e.rel = PathStr(r.path)
              /\ e.nbytes = Len(f.data)
              /\ e.brief = <<>> /\ e.summary = <<>> /\ e.block.body = <<>>
              /\ \A k \in 1..Len(doc[1].graph.edges) :
                   doc[1].graph.edges[k].file_path # PathStr(r.path)
              /\ r.path = <<<<"r", "e", "q", "u", "i", "r", "e", "m", "e", "n", "t", "s", ".", "t", "x", "t">>>> => doc[1].dependencies = <<>>

\* C13: under --md-policy skip the entry of a markdown file holds its header,
\* its metrics and the notice that it is skipped, and nothing of its text: no
\* brief, no summary and no content.
C13_SkippedEntirely ==
  (pc = "done" /\ args.md_policy = "skip") =>
    \A i \in 1..Len(file_records) :
      file_records[i].lang = "markdown" =>
        /\ doc[1].entries[i].rel = PathStr(file_records[i].path)
        /\ doc[1].entries[i].block.kind = "skipped"
        /\ doc[1].entries[i].block.body = <<>>
        /\ doc[1].entries[i].brief = <<>>
        /\ doc[1].entries[i].summary = <<>>

\* The statement nodes of the record's parsed text that are of the class cls,
\* at whatever depth; none when the text does not parse.
DefsAnyDepth(r, cls) ==
  IF ast_parse(r.text).ok
    THEN Cardinality({k \in 1..Len(ast_parse(r.text).nodes) :
                        ast_parse(r.text).nodes[k].kind = cls})
    ELSE 0

\* The same at the top level of the module only.
DefsTopLevel(r, cls) ==
  IF ast_parse(r.text).ok
    THEN Cardinality({k \in 1..Len(ast_parse(r.text).nodes) :
                        /\ ast_parse(r.text).nodes[k].kind = cls
                        /\ ast_parse(r.text).nodes[k].depth = 0})
    ELSE 0

\* C14 as stated: the entry of a Python file with text reports the numbers of
\* the function and class definitions at the top level of its parsed source,
\* 0 and 0 when it does not parse, and the run does not raise.
C14_TopLevelCounts ==
  /\ rc # "exception"
  /\ pc = "done" =>
       \A i \in 1..Len(file_records) :
         (file_records[i].lang = "python" /\ file_records[i].text # <<>>) =>
           /\ doc[1].entries[i].py # <<>>
           /\ doc[1].entries[i].py[1].funcs = DefsTopLevel(file_records[i], "FunctionDef")
           /\ doc[1].entries[i].py[1].classes = DefsTopLevel(file_records[i], "ClassDef")

\* C14, amended: the entry of a Python file with text reports the number of
\* the def statements of its parsed source at every depth, methods and nested
\* functions included and async def not, and the number of its class
\* statements at every depth; 0 and 0 when the source does not parse; the run
\* does not raise.
C14_AllDepthCounts ==
  /\ rc # "exception"
  /\ pc = "done" =>
       \A i \in 1..Len(file_records) :
         (file_records[i].lang = "python" /\ file_records[i].text # <<>>) =>
           /\ doc[1].entries[i].py # <<>>
           /\ doc[1].entries[i].py[1].funcs = DefsAnyDepth(file_records[i], "FunctionDef")
           /\ doc[1].entries[i].py[1].classes = DefsAnyDepth(file_records[i], "ClassDef")

\* A document with the entry of a Python file that parses and holds a method
\* next to a coroutine: the method is counted, the coroutine is not.
C14_Witness ==
  /\ pc = "done"
  /\ \E i \in 1..Len(file_records) :
       /\ file_records[i].lang = "python"
       /\ ast_parse(file_records[i].text).ok
       /\ DefsAnyDepth(file_records[i], "AsyncFunctionDef") > 0
       /\ DefsAnyDepth(file_records[i], "ClassDef") > 0
       /\ DefsTopLevel(file_records[i], "FunctionDef") = 0
       /\ doc[1].entries[i].py[1].funcs = 1
       /\ doc[1].entries[i].py[1].classes = 1
====
